---- MODULE Spec2Model ----
(***************************************************************************)
(* Closure transform of GoCaml (package closure): the speculative          *)
(* known-function classification (transformWithKFO) and the rewrite that   *)
(* Transform performs on the instruction list.                             *)
(*                                                                         *)
(* An instruction is identified by its position in the program: the k-th   *)
(* instruction of the outermost block is <<k>>, the k-th instruction of    *)
(* the body of the function defined by instruction p is Append(p, k).      *)
(* The identifier an instruction binds is that same path, the parameter    *)
(* of the function defined by p is Append(p, 0).                           *)
(*                                                                         *)
(* Go maps, slices and the transformWithKFO struct are reference values:   *)
(* they live in a heap (a sequence of objects addressed by index), so      *)
(* that aliasing between a state and its duplicate is visible.             *)
(***************************************************************************)
EXTENDS Integers, Sequences, FiniteSets, TLC

\* Largest number of instructions (function literals included) of an input program.
MaxInsns == 4
\* Largest spare capacity append() leaves behind the element it adds when it
\* has to grow a slice (Go leaves the capacity of a grown slice unspecified).
MaxSpare == 1

VARIABLES
    src,        \* the input program: instruction -> value, as handed to Transform
    val,        \* gcil.Insn.Val of every instruction (mutated by the rewrite)
    next,       \* gcil.Insn.Next
    prev,       \* gcil.Insn.Prev
    heap,       \* maps, arrays and transformWithKFO structs, by address
    t,          \* address of Transform's transformWithKFO (0 before it is made)
    visits,     \* one record per function literal explored (history)
    appVisits,  \* one record per application explored (history)
    rerun,      \* closures mapping recorded by an independent run on the same input
    pc,         \* position inside Transform
    todo,       \* keys of t.replacedFuns the range loop has not visited yet
    toplevel,   \* Transform's local map toplevel
    prog,       \* the returned gcil.Program
    pass,       \* which application of the rewrite is running (1 or 2)
    first       \* the outcome of the first application of the rewrite

vars == <<src, val, next, prev, heap, t, visits, appVisits, rerun, pc, todo,
          toplevel, prog, pass, first>>

Nil == <<-9>>
NilCls == [kind |-> "nil"]
NoProg == [kind |-> "none"]

Range(s) == {s[i] : i \in DOMAIN s}

----------------------------------------------------------------------------
(* The instruction list (package gcil)                                     *)

Top(b) == Append(b, -1)
Bottom(b) == Append(b, -2)
Param(f) == Append(f, 0)

Nop == [kind |-> "nop"]
Prim(reads) == [kind |-> "prim", Reads |-> reads]
App(callee, args) == [kind |-> "app", Callee |-> callee, Args |-> args, Closure |-> FALSE]
Fun(f) == [kind |-> "fun", Params |-> <<Param(f)>>, Body |-> f]
MakeCls(vs, f) == [kind |-> "makecls", Vars |-> vs, Fun |-> f]

\* Blocks of a program: the outermost one and one per function literal.
BlocksOf(p) == {<<>>} \cup {i \in DOMAIN p : p[i].kind = "fun"}
NodesOf(p) == DOMAIN p \cup {Top(b) : b \in BlocksOf(p)} \cup {Bottom(b) : b \in BlocksOf(p)}
Owner(i) == SubSeq(i, 1, Len(i) - 1)

InitNext(p) ==
    [i \in NodesOf(p) |->
        IF i = Bottom(Owner(i)) THEN Nil
        ELSE LET k == IF i = Top(Owner(i)) THEN 1 ELSE i[Len(i)] + 1
                 n == Append(Owner(i), k)
             IN IF n \in DOMAIN p THEN n ELSE Bottom(Owner(i))]

InitPrev(p) ==
    [i \in NodesOf(p) |->
        IF i = Top(Owner(i)) THEN Nil
        ELSE IF i = Bottom(Owner(i))
             THEN LET last == {j \in DOMAIN p : Owner(j) = Owner(i) /\ Append(Owner(j), j[Len(j)] + 1) \notin DOMAIN p}
                  IN IF last = {} THEN Top(Owner(i)) ELSE CHOOSE j \in last : TRUE
             ELSE IF i[Len(i)] = 1 THEN Top(Owner(i)) ELSE Append(Owner(i), i[Len(i)] - 1)]

InitVal(p) == [i \in NodesOf(p) |-> IF i \in DOMAIN p THEN p[i] ELSE Nop]

----------------------------------------------------------------------------
(* Input programs: well-scoped blocks of at most MaxInsns instructions.    *)
(* An instruction is a constant, a primitive reading one name in scope, an *)
(* application of a name in scope, or a function literal of one parameter  *)
(* with a non-empty body.  The argument of an application is the parameter *)
(* of the enclosing function; in the outermost block, which has none, it   *)
(* is the name bound last.  The programs of n instructions are numbered    *)
(* 0 .. NumPrograms(n) - 1 and Program(n, x) is the x-th of them.          *)

RECURSIVE Ways(_, _, _)
RECURSIVE WaysFun(_, _, _)
\* The number of function literals with a body of j..n-1 instructions that,
\* with the rest of their block, take n instructions, s names being in scope.
WaysFun(s, n, j) ==
    IF j > n - 1 THEN 0
    ELSE Ways(s + 2, j, FALSE) * Ways(s + 1, n - 1 - j, TRUE) + WaysFun(s, n, j + 1)
\* The number of ways to continue a block with exactly n more instructions
\* (those of nested bodies included) when s names are in scope.
Ways(s, n, mayEnd) ==
    IF n = 0 THEN (IF mayEnd THEN 1 ELSE 0)
    ELSE (1 + 2 * s) * Ways(s + 1, n - 1, TRUE) + WaysFun(s, n, 1)

RECURSIVE GenSeq(_, _, _, _, _, _)
RECURSIVE GenFun(_, _, _, _, _, _, _)
\* The x-th function literal at position k of block b whose body has at
\* least j instructions, followed by the rest of the block.
GenFun(b, k, scope, arg, n, j, x) ==
    LET id == Append(b, k)
        s == Len(scope)
        rests == Ways(s + 1, n - 1 - j, TRUE)
        here == Ways(s + 2, j, FALSE) * rests
    IN IF x < here
       THEN (id :> Fun(id))
            @@ GenSeq(id, 1, scope \o <<id, Param(id)>>, Param(id), j, x \div rests)
            @@ GenSeq(b, k + 1, Append(scope, id), IF b = <<>> THEN id ELSE arg,
                      n - 1 - j, x % rests)
       ELSE GenFun(b, k, scope, arg, n, j + 1, x - here)
\* The x-th way to continue block b from position k with n instructions;
\* scope lists the names in scope.
GenSeq(b, k, scope, arg, n, x) ==
    IF n = 0 THEN <<>>
    ELSE LET id == Append(b, k)
             s == Len(scope)
             rests == Ways(s + 1, n - 1, TRUE)
             o == x \div rests
             v == IF o = 0 THEN Prim(<<>>)
                  ELSE IF o <= s THEN Prim(<<scope[o]>>)
                  ELSE App(scope[o - s], <<arg>>)
         IN IF x < (1 + 2 * s) * rests
            THEN (id :> v) @@ GenSeq(b, k + 1, Append(scope, id),
                                     IF b = <<>> THEN id ELSE arg, n - 1, x % rests)
            ELSE GenFun(b, k, scope, arg, n, 1, x - (1 + 2 * s) * rests)

NumPrograms(n) == Ways(0, n, FALSE)
Program(n, x) == GenSeq(<<>>, 1, <<>>, Nil, n, x)

----------------------------------------------------------------------------
(* Heap objects                                                            *)
(*   nameSet                      a set of names                           *)
(*   map[*Insn]*MakeCls           a function instruction -> MakeCls/NilCls *)
(*   map[string][]string          a function name -> sequence of names     *)
(*   map[string]nameSet           a function name -> set of names          *)
(*   backing array of a slice     a sequence of length cap (Nil = unused)  *)
(*   transformWithKFO             a record of the addresses of its maps    *)
(*                                and the slice header of closureCalls     *)
(* A machine m carries the heap, the histories, and the two choices the    *)
(* run leaves to the Go runtime: the order in which a map is iterated      *)
(* (ord: function name -> order of its keys) and the spare capacity of a   *)
(* grown slice.                                                            *)

EmptyMap == <<>>
Put(map, k, v) == (k :> v) @@ map

Known(m, tr) == m.heap[m.heap[tr].knownFuns]
Replaced(m, tr) == m.heap[m.heap[tr].replacedFuns]
Closures(m, tr) == m.heap[m.heap[tr].closures]
BlockFreeVars(m, tr) == m.heap[m.heap[tr].closureBlockFreeVars]
\* The elements of trans.closureCalls a range loop or len() can see.
Calls(m, tr) ==
    LET sl == m.heap[tr].closureCalls IN SubSeq(m.heap[sl.arr], 1, sl.len)

View(m, tr) ==
    [known |-> Known(m, tr), replaced |-> Replaced(m, tr), closures |-> Closures(m, tr),
     blockFreeVars |-> BlockFreeVars(m, tr), calls |-> Calls(m, tr)]

RECURSIVE SetToSeq(_)
SetToSeq(S) == IF S = {} THEN <<>>
               ELSE LET x == CHOOSE y \in S : TRUE IN <<x>> \o SetToSeq(S \ {x})

RECURSIVE Perms(_)
Perms(S) == IF S = {} THEN {<<>>}
            ELSE UNION {{<<x>> \o q : q \in Perms(S \ {x})} : x \in S}

\* nameSet.toArray: the keys of the set in the order the map iteration yields
\* them; the order is the runtime's choice, m.ord[f] for the set gathered for f.
toArray(m, f, set) ==
    IF f \in DOMAIN m.ord /\ Range(m.ord[f]) = set /\ Len(m.ord[f]) = Cardinality(set)
    THEN m.ord[f]
    ELSE SetToSeq(set)

\* transformWithKFO.dup: four fresh maps with the entries of the originals,
\* and the closureCalls slice header copied as it is (same backing array).
dupShareKnown(m, tr) ==
    LET s == m.heap[tr]
        a == Len(m.heap)
    IN [m EXCEPT !.heap = @ \o <<m.heap[s.knownFuns], m.heap[s.replacedFuns],
                                  m.heap[s.closures], m.heap[s.closureBlockFreeVars],
                                  [knownFuns |-> s.knownFuns, replacedFuns |-> a + 2,
                                   closureCalls |-> s.closureCalls, closures |-> a + 3,
                                   closureBlockFreeVars |-> a + 4]>>]

dup(m, tr) ==
    LET s == m.heap[tr]
        a == Len(m.heap)
    IN [m EXCEPT !.heap = @ \o <<m.heap[s.knownFuns], m.heap[s.replacedFuns],
                                  m.heap[s.closures], m.heap[s.closureBlockFreeVars],
                                  [knownFuns |-> a + 1, replacedFuns |-> a + 2,
                                   closureCalls |-> s.closureCalls, closures |-> a + 3,
                                   closureBlockFreeVars |-> a + 4]>>]

\* dup.knownFuns[insn.Ident] = struct{}{}
assumeNothing(m, d, f) == m

assumeKnown(m, d, f) ==
    [m EXCEPT !.heap[m.heap[d].knownFuns] = @ \cup {f}]

\* trans.closureCalls = append(trans.closureCalls, val): in place when the
\* backing array has room, else into a fresh, larger array.
appendCall(m, tr, app) ==
    LET sl == m.heap[tr].closureCalls IN
    IF sl.len < sl.cap
    THEN [m EXCEPT !.heap[sl.arr][sl.len + 1] = app,
                   !.heap[tr].closureCalls.len = sl.len + 1]
    ELSE LET a == Len(m.heap) + 1
             arr == SubSeq(m.heap[sl.arr], 1, sl.len) \o <<app>> \o [i \in 1..m.spare |-> Nil]
         IN [m EXCEPT !.heap = Append(@, arr) ,
                      !.heap[tr].closureCalls = [arr |-> a, len |-> sl.len + 1,
                                                  cap |-> sl.len + 1 + m.spare]]

----------------------------------------------------------------------------
(* Free variables (gatherFreeVars, gatherFreeVarsTillTheEnd)               *)

RECURSIVE fvFrom(_, _)
\* The names an instruction reads: the callee of an application only when it
\* is not a known function; a function literal, the free variables of its
\* body but its parameters and its own name.
fvInsn(i, known) ==
    LET v == val[i] IN
    CASE v.kind = "prim" -> Range(v.Reads)
      [] v.kind = "app" -> (IF v.Callee \in known THEN {} ELSE {v.Callee}) \cup Range(v.Args)
      [] v.kind = "fun" -> (fvFrom(next[Top(v.Body)], known) \ Range(v.Params)) \ {i}
      [] v.kind = "makecls" -> Range(v.Vars)
      [] OTHER -> {}

\* The names read from instruction i to the end of its block and not bound
\* by an earlier instruction of that stretch.
fvFrom(i, known) ==
    IF next[i] = Nil THEN {}
    ELSE fvInsn(i, known) \cup (fvFrom(next[i], known) \ {i})

gatherFreeVars(block, m, tr) == fvFrom(next[Top(block)], Known(m, tr))
gatherFreeVarsTillTheEnd(insn, m, tr) == fvFrom(insn, Known(m, tr))

----------------------------------------------------------------------------
(* The classification (transformWithKFO.start, transformWithKFO.explore)   *)

RECURSIVE explore(_, _, _)

\* Skip first NOP instruction
start(m, tr, block) == explore(m, tr, next[Top(block)])

\* case *gcil.Fun of explore
exploreFun(m, tr, insn) ==
    LET v == val[insn]
        m1 == dup(m, tr)
        d == Len(m1.heap)
        m2 == assumeKnown(m1, d, insn)
        m3 == start(m2, d, v.Body)
        fv == gatherFreeVars(v.Body, m3, d) \ Range(v.Params)
        m3b == start(m3, tr, v.Body)
        fv2 == gatherFreeVars(v.Body, m3b, tr) \ Range(v.Params)
        m4 == IF fv # {}
              THEN [m3b EXCEPT !.heap[m3b.heap[tr].closures] = Put(@, insn, toArray(m3b, insn, fv2))]
              ELSE m3
        m5 == explore(m4, tr, next[insn])
        fv3 == gatherFreeVarsTillTheEnd(next[insn], m5, tr)
        captured == IF insn \in DOMAIN Closures(m5, tr) THEN Closures(m5, tr)[insn] ELSE <<>>
        replaced == IF insn \in fv3 THEN MakeCls(captured, insn) ELSE NilCls
        visit == [insn |-> insn, state |-> tr, before |-> View(m, tr), after |-> View(m3, tr),
                  backtrack |-> fv # {}, referenced |-> insn \in fv3, decision |-> replaced,
                  slice |-> m.heap[tr].closureCalls, dupSlice |-> m3.heap[d].closureCalls]
    IN [m5 EXCEPT !.heap[m5.heap[tr].closureBlockFreeVars] = Put(@, insn, fv3),
                  !.heap[m5.heap[tr].replacedFuns] = Put(@, insn, replaced),
                  !.visits = @ \cup {visit}]

\* case *gcil.App of explore
exploreApp(m, tr, insn) ==
    LET isKnown == val[insn].Callee \in Known(m, tr)
        m1 == IF isKnown THEN appendCall(m, tr, insn) ELSE m
        m2 == [m1 EXCEPT !.appVisits = @ \cup {[insn |-> insn, state |-> tr, known |-> isKnown]}]
    IN explore(m2, tr, next[insn])

explore(m, tr, insn) ==
    IF next[insn] = Nil
    THEN m   \* Reaches bottom of the block
    ELSE CASE val[insn].kind = "fun" -> exploreFun(m, tr, insn)
           [] val[insn].kind = "app" -> exploreApp(m, tr, insn)
           [] OTHER -> explore(m, tr, next[insn])

\* t := &transformWithKFO{...}: empty maps, an empty slice; the struct is at address 6.
NewTransform(ord, spare) ==
    [heap |-> <<{}, EmptyMap, <<>>, EmptyMap, EmptyMap,
                [knownFuns |-> 1, replacedFuns |-> 2,
                 closureCalls |-> [arr |-> 3, len |-> 0, cap |-> 0],
                 closures |-> 4, closureBlockFreeVars |-> 5]>>,
     visits |-> {}, appVisits |-> {}, ord |-> ord, spare |-> spare]
TAddr == 6

\* t.start(ir)
Classify(ord, spare) == start(NewTransform(ord, spare), TAddr, <<>>)

\* The iteration orders that matter to a run: one order of the captured
\* names for every function that ends with an entry in t.closures.
RECURSIVE OrdersOf(_)
OrdersOf(cl) ==
    IF DOMAIN cl = {} THEN {EmptyMap}
    ELSE LET f == CHOOSE g \in DOMAIN cl : TRUE
             rest == OrdersOf([g \in DOMAIN cl \ {f} |-> cl[g]])
         IN {Put(o, f, q) : o \in rest, q \in Perms(Range(cl[f]))}

----------------------------------------------------------------------------
(* Transform                                                               *)

Init ==
    /\ \E n \in 1..MaxInsns : \E x \in 0..(NumPrograms(n) - 1) : src = Program(n, x)
    /\ val = InitVal(src)
    /\ next = InitNext(src)
    /\ prev = InitPrev(src)
    /\ heap = <<>>
    /\ t = 0
    /\ visits = {}
    /\ appVisits = {}
    /\ rerun = EmptyMap
    /\ pc = "start"
    /\ todo = {}
    /\ toplevel = EmptyMap
    /\ prog = NoProg
    /\ pass = 1
    /\ first = NoProg

\* Lines 137-144: make t and classify the whole program.
Start ==
    /\ pc = "start"
    /\ \E spare \in 0..MaxSpare :
         LET base == Classify(EmptyMap, spare)
             orders == OrdersOf(Closures(base, TAddr))
         IN \E o1 \in orders, o2 \in orders :
              LET m == Classify(o1, spare) IN
              /\ heap' = m.heap
              /\ visits' = m.visits
              /\ appVisits' = m.appVisits
              /\ rerun' = Closures(Classify(o2, spare), TAddr)
    /\ t' = TAddr
    /\ pc' = "flags"
    /\ UNCHANGED <<src, val, next, prev, todo, toplevel, prog, pass, first>>

TCalls == LET sl == heap[t].closureCalls IN SubSeq(heap[sl.arr], 1, sl.len)
TReplaced == heap[heap[t].replacedFuns]
TClosures == heap[heap[t].closures]

\* Lines 147-150: flag the recorded calls, make the toplevel map.
MarkClosureCalls ==
    /\ pc = "flags"
    /\ val' = [i \in DOMAIN val |->
                 IF i \in Range(TCalls) THEN [val[i] EXCEPT !.Closure = TRUE] ELSE val[i]]
    /\ toplevel' = EmptyMap
    /\ todo' = DOMAIN TReplaced
    /\ pc' = "funs"
    /\ UNCHANGED <<src, next, prev, heap, t, visits, appVisits, rerun, prog, pass, first>>

\* insn.RemoveFromList(): the neighbours are linked to each other, the
\* instruction keeps its own links.
RemoveFromList(insn) ==
    /\ next' = [next EXCEPT ![prev[insn]] = next[insn]]
    /\ prev' = [prev EXCEPT ![next[insn]] = prev[insn]]

\* Lines 151-165: one iteration of the range loop over t.replacedFuns, in
\* whatever order the map yields its keys.
Materialize(insn) ==
    /\ pc = "funs"
    /\ insn \in todo
    /\ todo' = todo \ {insn}
    /\ IF val[insn].kind # "fun"
       THEN /\ pc' = "panic"
            /\ UNCHANGED <<val, next, prev, toplevel>>
       ELSE /\ pc' = pc
            /\ toplevel' = Put(toplevel, insn, val[insn])
            /\ IF TReplaced[insn] = NilCls
               THEN RemoveFromList(insn) /\ UNCHANGED val
               ELSE val' = [val EXCEPT ![insn] = TReplaced[insn]] /\ UNCHANGED <<next, prev>>
    /\ UNCHANGED <<src, heap, t, visits, appVisits, rerun, prog, pass, first>>

\* What the Program gives access to: the function table, the closures map
\* and, through the entry block, the instruction list as it now is.
Outcome == [Toplevel |-> toplevel, Closures |-> TClosures, val |-> val, next |-> next, prev |-> prev]

\* Line 167
Return ==
    /\ pc = "funs"
    /\ todo = {}
    /\ prog' = [Toplevel |-> toplevel, Closures |-> TClosures, Entry |-> <<>>]
    /\ pc' = "done"
    /\ first' = IF pass = 1 THEN Outcome ELSE first
    /\ UNCHANGED <<src, val, next, prev, heap, t, visits, appVisits, rerun, todo, toplevel, pass>>

Next ==
    \/ Start
    \/ MarkClosureCalls
    \/ \E insn \in todo : Materialize(insn)
    \/ Return

Spec == Init /\ [][Next]_vars

\* Lines 146-167 once more on the same t, without classifying again.
RewriteAgain ==
    /\ pc = "done"
    /\ pass = 1
    /\ pass' = 2
    /\ pc' = "flags"
    /\ UNCHANGED <<src, val, next, prev, heap, t, visits, appVisits, rerun, todo, toplevel, prog, first>>

NextTwice == Next \/ RewriteAgain

SpecTwice == Init /\ [][NextTwice]_vars


----------------------------------------------------------------------------
(* Properties                                                              *)

RECURSIVE LinkedFrom(_)
LinkedFrom(i) == IF i = Nil THEN {} ELSE {i} \cup LinkedFrom(next[i])
\* The instructions a walk from the top of block b reaches.
Linked(b) == LinkedFrom(Top(b))

IsPrefix(p, q) == Len(p) < Len(q) /\ SubSeq(q, 1, Len(p)) = p
FunsOf(p) == {i \in DOMAIN p : p[i].kind = "fun"}
\* The instructions of the body of f, nested bodies included.
Under(f) == {i \in DOMAIN src : IsPrefix(f, i)}
\* The names bound inside the body of f, and its parameter.
Locals(f) == Under(f) \cup {Param(g) : g \in (Under(f) \cup {f}) \cap FunsOf(src)}
ValueReads(i) == IF src[i].kind = "prim" THEN Range(src[i].Reads)
                 ELSE IF src[i].kind = "app" THEN Range(src[i].Args) ELSE {}
CalleeReads(i) == IF src[i].kind = "app" THEN {src[i].Callee} ELSE {}
\* The instructions after f in its block, nested bodies included.
Remainder(f) == {i \in DOMAIN src : \E j \in DOMAIN src :
                    /\ Owner(j) = Owner(f) /\ j[Len(j)] > f[Len(f)]
                    /\ (i = j \/ IsPrefix(j, i))}

\* C1: after Transform, an application the committed traversal reached is
\* flagged indirect exactly when its callee was not in the known set when
\* the traversal visited it.
C1_IndirectIffNotKnown ==
    pc = "done" =>
        \A a \in appVisits : a.state = t => (val[a.insn].Closure <=> ~a.known)

\* C2: f(x) at the top defines g(y) reading x and calls g; after Transform
\* closures maps g to [x], g's instruction is MakeCls capturing [x], the call
\* is flagged indirect, f has no closures entry and no MakeCls.
IsNestedClosureScenario ==
    /\ DOMAIN src = {<<1>>, <<1, 1>>, <<1, 1, 1>>, <<1, 2>>}
    /\ src[<<1>>].kind = "fun"
    /\ src[<<1, 1>>].kind = "fun"
    /\ src[<<1, 1, 1>>] = Prim(<<Param(<<1>>)>>)
    /\ src[<<1, 2>>] = App(<<1, 1>>, <<Param(<<1>>)>>)
C2_NestedClosureScenario ==
    (pc = "done" /\ IsNestedClosureScenario) =>
        /\ <<1, 1>> \in DOMAIN prog.Closures
        /\ prog.Closures[<<1, 1>>] = <<Param(<<1>>)>>
        /\ val[<<1, 1>>] = MakeCls(<<Param(<<1>>)>>, <<1, 1>>)
        /\ val[<<1, 2>>].Closure
        /\ <<1>> \notin DOMAIN prog.Closures
        /\ val[<<1>>].kind # "makecls"

\* C3: after Transform every function literal of the input is in the
\* top-level table, and no instruction linked in the outermost block or in a
\* top-level function's body still holds a function literal.
C3_AllFunctionsHoisted ==
    pc = "done" =>
        /\ FunsOf(src) \subseteq DOMAIN prog.Toplevel
        /\ \A b \in {<<>>} \cup DOMAIN prog.Toplevel :
             \A i \in Linked(b) : val[i].kind # "fun"

\* C4: a function whose body calls it and reads nothing but parameters, names
\* bound inside the body and its own name as a callee is never backtracked
\* and has no entry in the closures mapping.
SelfRecursiveOnly(f) ==
    /\ \E i \in Under(f) : f \in CalleeReads(i)
    /\ \A i \in Under(f) : /\ ValueReads(i) \subseteq Locals(f)
                           /\ CalleeReads(i) \subseteq Locals(f) \cup {f}
C4_SelfRecursionIsKnown ==
    \A f \in FunsOf(src) : SelfRecursiveOnly(f) =>
        /\ \A v \in visits : v.insn = f => ~v.backtrack
        /\ t # 0 => f \notin DOMAIN TClosures
C4_Witness ==
    /\ pc = "done"
    /\ \E f \in FunsOf(src) : /\ SelfRecursiveOnly(f)
                              /\ \E v \in visits : v.insn = f /\ v.state = t
                              /\ f \in DOMAIN prog.Toplevel

\* C5: a function that was not backtracked and whose name is free in the rest
\* of its block is decided MakeCls with no captures, and after Transform its
\* instruction is linked in its block and holds that MakeCls.
C5_ValueEscapeKeepsMakeCls ==
    \A v \in visits : (~v.backtrack /\ v.referenced) =>
        /\ v.decision = MakeCls(<<>>, v.insn)
        /\ pc = "done" => /\ val[v.insn] = MakeCls(<<>>, v.insn)
                          /\ v.insn \in Linked(Owner(v.insn))

\* C6: in the returned Program the closures mapping has an entry for every
\* function whose instruction became MakeCls, the empty list when nothing is
\* captured.
C6_ClosuresCoverMakeCls ==
    pc = "done" =>
        \A i \in DOMAIN val : val[i].kind = "makecls" =>
            /\ i \in DOMAIN prog.Closures
            /\ prog.Closures[i] = val[i].Vars

\* C7: a second application of the rewrite on the same decisions does not
\* fail and leaves the Program as the first application left it.
C7_RewriteIdempotent ==
    pass = 2 => /\ pc # "panic"
                /\ pc = "done" => Outcome = first

\* C8: exploring a function body on a duplicate leaves the original state's
\* known set, decisions, closures mapping, free-variable cache and visible
\* closure calls as they were before the duplication.
C8_DupLeavesOriginal ==
    \A v \in visits : v.before = v.after
C8_Witness ==
    \E v \in visits : /\ v.slice.len < v.slice.cap
                      /\ v.dupSlice.arr = v.slice.arr
                      /\ v.dupSlice.len > v.slice.len

\* C9: a function confirmed known whose name the rest of its block uses only
\* as a callee is decided Remove: detached, no MakeCls, body in the table.
OnlyCalled(f) ==
    /\ \E i \in Remainder(f) : f \in CalleeReads(i)
    /\ \A i \in Remainder(f) : f \notin ValueReads(i)
C9_CalledOnlyIsRemoved ==
    \A v \in visits : (~v.backtrack /\ OnlyCalled(v.insn)) =>
        /\ v.decision = NilCls
        /\ (pc = "done" /\ v.state = t) =>
              /\ v.insn \notin Linked(Owner(v.insn))
              /\ val[v.insn].kind # "makecls"
              /\ v.insn \in DOMAIN prog.Toplevel

\* C10: a recorded capture list has no duplicates, and an independent run on
\* the same input records the same names in the same order.
C10_CaptureOrderStable ==
    t # 0 =>
        \A f \in DOMAIN TClosures :
            /\ Cardinality(Range(TClosures[f])) = Len(TClosures[f])
            /\ f \in DOMAIN rerun /\ rerun[f] = TClosures[f]

====
